---- MODULE Spec2Model ----
(***************************************************************************)
(* View-to-camera stage of the renderer: the perspective normalize matrix  *)
(* (renderer/scene/PerspectiveNormalizeMatrix.js, build) and the           *)
(* view2camera transformers (view2cameraModel, view2cameraPosition,        *)
(* view2cameraNestedModel).                                                *)
(*                                                                         *)
(* JavaScript objects live in a heap and are named by their index, so      *)
(* that object identity, aliasing and mutation are visible.  JavaScript    *)
(* numbers are modelled as extended rationals <<n, d>> in lowest terms     *)
(* with d > 0, together with <<1, 0>> (+Infinity), <<-1, 0>> (-Infinity)   *)
(* and <<0, 0>> (NaN); rounding of IEEE doubles and the sign of zero are   *)
(* not modelled.                                                           *)
(***************************************************************************)
EXTENDS Integers, Sequences, FiniteSets, TLC

VARIABLES heap, heap0, camera, calls, bargs, bres

vars == <<heap, heap0, camera, calls, bargs, bres>>

(***************************************************************************)
(* Bounds of the model.                                                    *)
(***************************************************************************)
MaxModels == 3
MaxPositions == 3
MaxVerts == 2
MaxLive == 1
MaxCoord == 2

(***************************************************************************)
(* JavaScript numbers.                                                     *)
(***************************************************************************)
Sign(n) == IF n > 0 THEN 1 ELSE IF n < 0 THEN -1 ELSE 0

Abs(n) == IF n < 0 THEN -n ELSE n

RECURSIVE GCD(_, _)
GCD(a, b) == IF b = 0 THEN a ELSE GCD(b, a % b)

Norm(n, d) ==
    IF d = 0 THEN <<Sign(n), 0>>
    ELSE LET g == GCD(Abs(n), Abs(d))
         IN  <<(Sign(d) * n) \div g, Abs(d) \div g>>

Q(n) == <<n, 1>>

NaN == <<0, 0>>

PosInf == <<1, 0>>

NegInf == <<-1, 0>>

IsFinite(a) == a[2] # 0

Mul(a, b) == Norm(a[1] * b[1], a[2] * b[2])

Add(a, b) ==
    IF IsFinite(a) /\ IsFinite(b) THEN Norm(a[1] * b[2] + b[1] * a[2], a[2] * b[2])
    ELSE IF a = NaN \/ b = NaN THEN NaN
    ELSE IF IsFinite(a) THEN b
    ELSE IF IsFinite(b) THEN a
    ELSE IF a = b THEN a
    ELSE NaN

Neg(a) == <<-a[1], a[2]>>

Sub(a, b) == Add(a, Neg(b))

Recip(b) ==
    IF b[1] = 0 THEN (IF b[2] = 0 THEN NaN ELSE PosInf)
    ELSE IF b[1] > 0 THEN <<b[2], b[1]>>
    ELSE <<-b[2], -b[1]>>

Div(a, b) == Mul(a, Recip(b))

(***************************************************************************)
(* JavaScript values passed to build: a type tag as typeof reports it and, *)
(* for a number, its value.                                                *)
(***************************************************************************)
JSNumber(q) == [type |-> "number", num |-> q]

JSString == [type |-> "string", num |-> NaN]

JSUndefined == [type |-> "undefined", num |-> NaN]

TypeOf(v) == v.type

(***************************************************************************)
(* Vector, Matrix and Vertex of the scene library.                         *)
(***************************************************************************)
Vector(x, y, z, w) == <<x, y, z, w>>

Vertex(x, y, z) == <<x, y, z>>

\* Matrix.buildFromColumns: the matrix, as a tuple of rows, whose columns are c1..c4
buildFromColumns(c1, c2, c3, c4) ==
    [i \in 1..4 |-> <<c1[i], c2[i], c3[i], c4[i]>>]

\* a.timesMatrix(b): the product a * b, row of a dot column of b
timesMatrix(a, b) ==
    [i \in 1..4 |->
        [j \in 1..4 |->
            Add(Add(Add(Mul(a[i][1], b[1][j]), Mul(a[i][2], b[2][j])),
                    Mul(a[i][3], b[3][j])),
                Mul(a[i][4], b[4][j]))]]

\* m.timesVertex(v): m * (x, y, z, 1), the w component dropped
timesVertex(m, v) ==
    LET row(i) == Add(Add(Add(Mul(m[i][1], v[1]), Mul(m[i][2], v[2])),
                          Mul(m[i][3], v[3])),
                      Mul(m[i][4], Q(1)))
    IN  Vertex(row(1), row(2), row(3))

(***************************************************************************)
(* PerspectiveNormalizeMatrix.js: build(l, r, b, t).  The result is        *)
(* [threw |-> TRUE] with no matrix (m = <<>>) when the Error is thrown,    *)
(* and the returned matrix otherwise.                                      *)
(***************************************************************************)
Thrown == [threw |-> TRUE, m |-> <<>>]

Returned(m) == [threw |-> FALSE, m |-> m]

\* the skew matrix m1 of build
SkewMatrix(l, r, b, t) ==
    buildFromColumns(
        Vector(Q(1), Q(0), Q(0), Q(0)),
        Vector(Q(0), Q(1), Q(0), Q(0)),
        Vector(Div(Add(r, l), Q(2)), Div(Add(t, b), Q(2)), Q(1), Q(0)),
        Vector(Q(0), Q(0), Q(0), Q(1)))

\* the scale matrix m2 of build
ScaleMatrix(l, r, b, t) ==
    buildFromColumns(
        Vector(Div(Q(2), Sub(r, l)), Q(0), Q(0), Q(0)),
        Vector(Q(0), Div(Q(2), Sub(t, b)), Q(0), Q(0)),
        Vector(Q(0), Q(0), Q(1), Q(0)),
        Vector(Q(0), Q(0), Q(0), Q(1)))

\* build with the check of t left out
buildForgetsT(l, r, b, t) ==
    IF \/ TypeOf(l) # "number"
       \/ TypeOf(r) # "number"
       \/ TypeOf(b) # "number"
    THEN Thrown
    ELSE LET m1 == SkewMatrix(l.num, r.num, b.num, t.num)
             m2 == ScaleMatrix(l.num, r.num, b.num, t.num)
         IN  Returned(timesMatrix(m2, m1))

\* build scaling by 1/(r-l) and 1/(t-b)
buildHalfScale(l, r, b, t) ==
    IF \/ TypeOf(l) # "number"
       \/ TypeOf(r) # "number"
       \/ TypeOf(b) # "number"
       \/ TypeOf(t) # "number"
    THEN Thrown
    ELSE LET m1 == SkewMatrix(l.num, r.num, b.num, t.num)
             m2 == buildFromColumns(
                       Vector(Div(Q(1), Sub(r.num, l.num)), Q(0), Q(0), Q(0)),
                       Vector(Q(0), Div(Q(1), Sub(t.num, b.num)), Q(0), Q(0)),
                       Vector(Q(0), Q(0), Q(1), Q(0)),
                       Vector(Q(0), Q(0), Q(0), Q(1)))
         IN  Returned(timesMatrix(m2, m1))

\* build returning m1.timesMatrix(m2), the product in the order the doc comment writes
buildSwapped(l, r, b, t) ==
    IF \/ TypeOf(l) # "number"
       \/ TypeOf(r) # "number"
       \/ TypeOf(b) # "number"
       \/ TypeOf(t) # "number"
    THEN Thrown
    ELSE LET m1 == SkewMatrix(l.num, r.num, b.num, t.num)
             m2 == ScaleMatrix(l.num, r.num, b.num, t.num)
         IN  Returned(timesMatrix(m1, m2))

build(l, r, b, t) ==
    IF \/ TypeOf(l) # "number"
       \/ TypeOf(r) # "number"
       \/ TypeOf(b) # "number"
       \/ TypeOf(t) # "number"
    THEN Thrown
    ELSE LET m1 == SkewMatrix(l.num, r.num, b.num, t.num)
             m2 == ScaleMatrix(l.num, r.num, b.num, t.num)
         IN  Returned(timesMatrix(m2, m1))

(***************************************************************************)
(* The heap.  vl holds the vertex arrays, il the arrays of object          *)
(* references and the primitive and colour lists, mod the Model objects,   *)
(* pos the Position objects.  An object is named by its index in its       *)
(* sequence; allocation appends.                                           *)
(***************************************************************************)
\* const v = x; F(v): x is evaluated once
Bind(x, F(_)) == CHOOSE y \in {F(v) : v \in {x}} : TRUE

EmptyHeap == [vl |-> <<>>, il |-> <<>>, mod |-> <<>>, pos |-> <<>>]

\* new Array() holding vertices
NewVertexArray(h, contents) ==
    [h |-> [h EXCEPT !.vl = Append(@, contents)], ret |-> Len(h.vl) + 1]

\* new Array() holding references
NewArray(h, contents) ==
    [h |-> [h EXCEPT !.il = Append(@, contents)], ret |-> Len(h.il) + 1]

\* array.push(x)
Push(h, a, x) == [h EXCEPT !.il[a] = Append(@, x)]

\* new Model(vList, pList, cList, matrix, nestedModels, name, vis): keeps the references
NewModel(h, vList, pList, cList, matrix, nestedModels, name, vis) ==
    [h |-> [h EXCEPT !.mod = Append(@,
                [vertexList |-> vList, primitiveList |-> pList, colorList |-> cList,
                 matrix |-> matrix, nestedModels |-> nestedModels,
                 name |-> name, visible |-> vis])],
     ret |-> Len(h.mod) + 1]

\* Position.buildFromModelName(model, name): a new Position with no nested positions
buildFromModelName(h, model, name) ==
    LET a == NewArray(h, <<>>)
    IN  [h |-> [a.h EXCEPT !.pos = Append(@,
                    [model |-> model, name |-> name, nestedPositions |-> a.ret])],
         ret |-> Len(h.pos) + 1]

\* p.model = m
SetModel(h, p, m) == [h EXCEPT !.pos[p].model = m]

\* p.addNestedPosition(q)
addNestedPosition(h, p, q) == Push(h, h.pos[p].nestedPositions, q)

(***************************************************************************)
(* Camera: the view volume and the normalize matrix derived from it once.  *)
(***************************************************************************)
\* the orthographic normalize matrix: translate the centre line to the z-axis, then scale
OrthoBuild(l, r, b, t) ==
    LET m1 == buildFromColumns(
                  Vector(Q(1), Q(0), Q(0), Q(0)),
                  Vector(Q(0), Q(1), Q(0), Q(0)),
                  Vector(Q(0), Q(0), Q(1), Q(0)),
                  Vector(Neg(Div(Add(r, l), Q(2))), Neg(Div(Add(t, b), Q(2))), Q(0), Q(1)))
        m2 == ScaleMatrix(l, r, b, t)
    IN  timesMatrix(m2, m1)

PerspectiveCamera(l, r, b, t) ==
    [perspective |-> TRUE, left |-> l, right |-> r, bottom |-> b, top |-> t,
     normalizeMatrix |-> build(JSNumber(l), JSNumber(r), JSNumber(b), JSNumber(t)).m]

OrthoCamera(l, r, b, t) ==
    [perspective |-> FALSE, left |-> l, right |-> r, bottom |-> b, top |-> t,
     normalizeMatrix |-> OrthoBuild(l, r, b, t)]

getNormalizeMatrix(cam) == cam.normalizeMatrix

(***************************************************************************)
(* The view2camera transformers.  Each takes the heap and returns the heap *)
(* after the call together with the reference it returns.                  *)
(***************************************************************************)
\* view2cameraModel adding each new vertex at the front of the new list
view2cameraModelReversed(h, model, cam) ==
    LET normalizeMatrix == getNormalizeMatrix(cam)
        src == h.vl[h.mod[model].vertexList]
        newVertexList == NewVertexArray(h,
                            [i \in 1..Len(src) |->
                                timesVertex(normalizeMatrix, src[Len(src) + 1 - i])])
        m == newVertexList.h.mod[model]
    IN  NewModel(newVertexList.h, newVertexList.ret, m.primitiveList, m.colorList,
                 m.matrix, m.nestedModels, m.name, m.visible)

\* view2cameraModel writing the new vertices into the model's own vertex array
view2cameraModelInPlace(h, model, cam) ==
    LET normalizeMatrix == getNormalizeMatrix(cam)
        src == h.vl[h.mod[model].vertexList]
        h1 == [h EXCEPT !.vl[h.mod[model].vertexList] =
                            [i \in 1..Len(src) |-> timesVertex(normalizeMatrix, src[i])]]
        m == h1.mod[model]
    IN  NewModel(h1, m.vertexList, m.primitiveList, m.colorList,
                 m.matrix, m.nestedModels, m.name, m.visible)

\* view2cameraModel passing colorList and primitiveList in each other's place
view2cameraModelSwapLists(h, model, cam) ==
    LET normalizeMatrix == getNormalizeMatrix(cam)
        src == h.vl[h.mod[model].vertexList]
        newVertexList == NewVertexArray(h,
                            [i \in 1..Len(src) |-> timesVertex(normalizeMatrix, src[i])])
        m == newVertexList.h.mod[model]
    IN  NewModel(newVertexList.h, newVertexList.ret, m.colorList, m.primitiveList,
                 m.matrix, m.nestedModels, m.name, m.visible)

view2cameraModel(h, model, cam) ==
    LET normalizeMatrix == getNormalizeMatrix(cam)
        src == h.vl[h.mod[model].vertexList]
        newVertexList == NewVertexArray(h,
                            [i \in 1..Len(src) |-> timesVertex(normalizeMatrix, src[i])])
        m == newVertexList.h.mod[model]
    IN  NewModel(newVertexList.h, newVertexList.ret, m.primitiveList, m.colorList,
                 m.matrix, m.nestedModels, m.name, m.visible)

RECURSIVE view2cameraNestedModel(_, _, _)
RECURSIVE NestedModelLoop(_, _, _, _, _)
\* for(const m of model.nestedModels) newNestedModelList.push(view2cameraNestedModel(m, camera))
NestedModelLoop(h, model, i, newNestedModelList, cam) ==
    LET src == h.il[h.mod[model].nestedModels]
    IN  IF i > Len(src) THEN h
        ELSE Bind(view2cameraNestedModel(h, src[i], cam), LAMBDA r :
                 NestedModelLoop(Push(r.h, newNestedModelList, r.ret),
                                 model, i + 1, newNestedModelList, cam))

\* view2cameraNestedModel leaving a model that is not visible, and its subtree, as they are
view2cameraNestedModelCulled(h, model, cam) ==
    IF ~h.mod[model].visible THEN [h |-> h, ret |-> model]
    ELSE Bind(view2cameraModel(h, model, cam), LAMBDA mod2 :
         Bind(NewArray(mod2.h, <<>>), LAMBDA newNestedModelList :
         Bind(NestedModelLoop(newNestedModelList.h, model, 1, newNestedModelList.ret, cam),
              LAMBDA h2 :
                 LET m == h2.mod[mod2.ret]
                 IN  NewModel(h2, m.vertexList, m.primitiveList, m.colorList, m.matrix,
                              newNestedModelList.ret, m.name, m.visible))))

\* view2cameraNestedModel returning mod2, whose nestedModels is the input's list
view2cameraNestedModelShallow(h, model, cam) == view2cameraModel(h, model, cam)

view2cameraNestedModel(h, model, cam) ==
    Bind(view2cameraModel(h, model, cam), LAMBDA mod2 :
    Bind(NewArray(mod2.h, <<>>), LAMBDA newNestedModelList :
    Bind(NestedModelLoop(newNestedModelList.h, model, 1, newNestedModelList.ret, cam),
         LAMBDA h2 :
            LET m == h2.mod[mod2.ret]
            IN  NewModel(h2, m.vertexList, m.primitiveList, m.colorList, m.matrix,
                         newNestedModelList.ret, m.name, m.visible))))

RECURSIVE view2cameraPosition(_, _, _)
RECURSIVE NestedPositionLoop(_, _, _, _, _)
\* for(const pos of position.nestedPositions) pos2.addNestedPosition(view2cameraPosition(pos, camera))
NestedPositionLoop(h, position, i, pos2, cam) ==
    LET src == h.il[h.pos[position].nestedPositions]
    IN  IF i > Len(src) THEN h
        ELSE Bind(view2cameraPosition(h, src[i], cam), LAMBDA r :
                 NestedPositionLoop(addNestedPosition(r.h, pos2, r.ret),
                                    position, i + 1, pos2, cam))

\* view2cameraPosition visiting the nested positions of a visible model only
view2cameraPositionSkipsHidden(h, position, cam) ==
    Bind(buildFromModelName(h, h.pos[position].model, h.pos[position].name), LAMBDA pos2 :
        IF pos2.h.mod[pos2.h.pos[position].model].visible
        THEN Bind(view2cameraNestedModel(pos2.h, pos2.h.pos[position].model, cam),
                  LAMBDA r :
                     [h |-> NestedPositionLoop(SetModel(r.h, pos2.ret, r.ret),
                                               position, 1, pos2.ret, cam),
                      ret |-> pos2.ret])
        ELSE [h |-> pos2.h, ret |-> pos2.ret])

\* view2cameraPosition transforming the model whatever its visible flag
view2cameraPositionTransformsHidden(h, position, cam) ==
    Bind(buildFromModelName(h, h.pos[position].model, h.pos[position].name), LAMBDA pos2 :
    Bind(view2cameraNestedModel(pos2.h, pos2.h.pos[position].model, cam), LAMBDA r :
        [h |-> NestedPositionLoop(SetModel(r.h, pos2.ret, r.ret),
                                  position, 1, pos2.ret, cam),
         ret |-> pos2.ret]))

view2cameraPosition(h, position, cam) ==
    Bind(buildFromModelName(h, h.pos[position].model, h.pos[position].name), LAMBDA pos2 :
    Bind(IF pos2.h.mod[pos2.h.pos[position].model].visible
         THEN Bind(view2cameraNestedModel(pos2.h, pos2.h.pos[position].model, cam),
                   LAMBDA r : SetModel(r.h, pos2.ret, r.ret))
         ELSE pos2.h,
         LAMBDA h1 :
            [h |-> NestedPositionLoop(h1, position, 1, pos2.ret, cam), ret |-> pos2.ret]))

(***************************************************************************)
(* The input scenes.  Model i (1..MaxModels) is nested in model mparent[i] *)
(* (0: a root model); Position j (1..MaxPositions) is nested in Position   *)
(* pparent[j]; children keep the order of their numbers.  Position j holds *)
(* one of the root models.  Model i owns vertex array i and the arrays     *)
(* 3i-2 (primitives), 3i-1 (colours) and 3i (nested models); Position j    *)
(* owns array 3*MaxModels + j (nested positions).                          *)
(***************************************************************************)
ModelIds == 1..MaxModels

PositionIds == 1..MaxPositions

ModelParents ==
    {f \in [ModelIds -> 0..MaxModels] :
        /\ f[1] = 0
        /\ \A i \in ModelIds : i > 1 => f[i] \in {i - 1, i - 2, 0}}

PositionParents ==
    {f \in [PositionIds -> 0..MaxPositions] :
        /\ f[1] = 0
        /\ \A j \in PositionIds : j > 1 => f[j] \in {j - 1, 1}}

\* the members of S in increasing order
RECURSIVE SortedSeq(_)
SortedSeq(S) ==
    IF S = {} THEN <<>>
    ELSE LET x == CHOOSE y \in S : \A z \in S : y <= z
         IN  <<x>> \o SortedSeq(S \ {x})

Children(parent, i) == SortedSeq({k \in DOMAIN parent : parent[k] = i})

\* the vertex list of input model i: (2i - 1) % (MaxVerts + 1) vertices
InputVertices(i) ==
    [k \in 1..((2 * i - 1) % (MaxVerts + 1)) |-> Vertex(Q(i), Q(k), Q(-k))]

InputHeap(mparent, visible, pparent) ==
    LET nm == Len(mparent)
        np == Len(pparent)
        roots == Children(mparent, 0)
    IN  [vl  |-> [i \in 1..nm |-> InputVertices(i)],
         il  |-> [a \in 1..(3 * nm + np) |->
                    IF a > 3 * nm THEN Children(pparent, a - 3 * nm)
                    ELSE LET i == (a + 2) \div 3
                         IN  IF a % 3 = 1 THEN [k \in 1..Len(InputVertices(i)) |-> k]
                             ELSE IF a % 3 = 2 THEN <<10 + i>>
                             ELSE Children(mparent, i)],
         mod |-> [i \in 1..nm |->
                    [vertexList |-> i, primitiveList |-> 3 * i - 2,
                     colorList |-> 3 * i - 1, matrix |-> 100 + i,
                     nestedModels |-> 3 * i, name |-> "m" \o ToString(i),
                     visible |-> visible[i]]],
         pos |-> [j \in 1..np |->
                    [model |-> roots[((j - 1) % Len(roots)) + 1],
                     name |-> "p" \o ToString(j),
                     nestedPositions |-> 3 * nm + j]]]

Cameras ==
    { PerspectiveCamera(Q(0), Q(2), Q(0), Q(2)),
      OrthoCamera(Q(-1), Q(2), Q(0), Q(4)) }

NoArgs == <<JSUndefined, JSUndefined, JSUndefined, JSUndefined>>

NoResult == [op |-> "none", threw |-> FALSE, m |-> <<>>]

(***************************************************************************)
(* The scene specification: a caller hands input Positions and Models to   *)
(* view2cameraPosition and view2cameraModel.  calls is the stack of the    *)
(* calls whose returned trees the caller still holds (at most MaxLive);    *)
(* each entry records the argument, the returned reference and the heap    *)
(* before the call.  The caller may drop the tree returned last, and its   *)
(* objects are then reclaimed.                                             *)
(***************************************************************************)
Init ==
    /\ \E mparent \in ModelParents, pparent \in PositionParents,
          visible \in [ModelIds -> BOOLEAN] :
            heap = InputHeap(mparent, visible, pparent)
    /\ heap0 = heap
    /\ camera \in Cameras
    /\ calls = <<>>
    /\ bargs = NoArgs
    /\ bres = NoResult

CallPosition(p) ==
    /\ Len(calls) < MaxLive
    /\ \E r \in {view2cameraPosition(heap, p, camera)} :
           /\ heap' = r.h
           /\ calls' = Append(calls,
                  [op |-> "position", arg |-> p, ret |-> r.ret, pre |-> heap])
    /\ UNCHANGED <<heap0, camera, bargs, bres>>

CallModel(m) ==
    /\ Len(calls) < MaxLive
    /\ \E r \in {view2cameraModel(heap, m, camera)} :
           /\ heap' = r.h
           /\ calls' = Append(calls,
                  [op |-> "model", arg |-> m, ret |-> r.ret, pre |-> heap])
    /\ UNCHANGED <<heap0, camera, bargs, bres>>

\* the objects allocated since the heap was pre are reclaimed
Reclaim(h, pre) ==
    [vl  |-> SubSeq(h.vl, 1, Len(pre.vl)),
     il  |-> SubSeq(h.il, 1, Len(pre.il)),
     mod |-> SubSeq(h.mod, 1, Len(pre.mod)),
     pos |-> SubSeq(h.pos, 1, Len(pre.pos))]

Discard ==
    /\ calls # <<>>
    /\ heap' = Reclaim(heap, calls[Len(calls)].pre)
    /\ calls' = SubSeq(calls, 1, Len(calls) - 1)
    /\ UNCHANGED <<heap0, camera, bargs, bres>>

Next ==
    \/ \E p \in 1..Len(heap0.pos) : CallPosition(p)
    \/ \E m \in 1..Len(heap0.mod) : CallModel(m)
    \/ Discard

Spec == Init /\ [][Next]_vars

(***************************************************************************)
(* The build specification: build is applied to four JavaScript values,    *)
(* and a perspective camera with the bounds it accepted transforms a Model *)
(* whose vertexList is [(1, 1, -1)].                                       *)
(***************************************************************************)
JSValues ==
    {JSNumber(Q(n)) : n \in (-MaxCoord)..MaxCoord}
        \cup {JSNumber(NaN), JSNumber(PosInf), JSNumber(NegInf), JSString, JSUndefined}

InitBuild ==
    /\ bargs \in JSValues \X JSValues \X JSValues \X JSValues
    /\ bres = NoResult
    /\ heap = InputHeap(<<0>>, <<TRUE>>, <<0>>)
    /\ heap0 = heap
    /\ camera = PerspectiveCamera(Q(-1), Q(1), Q(-1), Q(1))
    /\ calls = <<>>

BuildCall ==
    /\ bres.op = "none"
    /\ LET r == build(bargs[1], bargs[2], bargs[3], bargs[4])
       IN  bres' = [op |-> "build", threw |-> r.threw, m |-> r.m]
    /\ UNCHANGED <<heap, heap0, camera, calls, bargs>>

TransformCall ==
    /\ bres.op = "build"
    /\ ~bres.threw
    /\ calls = <<>>
    /\ camera' = PerspectiveCamera(bargs[1].num, bargs[2].num, bargs[3].num, bargs[4].num)
    /\ \E r \in {view2cameraModel(heap, 1, camera')} :
           /\ heap' = r.h
           /\ calls' = <<[op |-> "model", arg |-> 1, ret |-> r.ret, pre |-> heap]>>
    /\ UNCHANGED <<heap0, bargs, bres>>

NextBuild == BuildCall \/ TransformCall

SpecBuild == InitBuild /\ [][NextBuild]_vars

(***************************************************************************)
(* Reading trees out of a heap.                                            *)
(***************************************************************************)
Min(a, b) == IF a < b THEN a ELSE b

Verts(h, m) == h.vl[h.mod[m].vertexList]

NestedModels(h, m) == h.il[h.mod[m].nestedModels]

NestedPositions(h, p) == h.il[h.pos[p].nestedPositions]

ModelOf(h, p) == h.pos[p].model

\* a vertex list multiplied, vertex by vertex, by the camera's normalize matrix
Transformed(vs) == [i \in 1..Len(vs) |-> timesVertex(getNormalizeMatrix(camera), vs[i])]

\* the Model objects of the tree rooted at m
RECURSIVE ModelsUnder(_, _)
ModelsUnder(h, m) ==
    {m} \cup UNION {ModelsUnder(h, NestedModels(h, m)[i]) :
                        i \in 1..Len(NestedModels(h, m))}

\* the Position objects of the tree rooted at p
RECURSIVE PositionsUnder(_, _)
PositionsUnder(h, p) ==
    {p} \cup UNION {PositionsUnder(h, NestedPositions(h, p)[i]) :
                        i \in 1..Len(NestedPositions(h, p))}

\* the Model objects reachable from the Position tree rooted at p
SceneModels(h, p) == UNION {ModelsUnder(h, ModelOf(h, q)) : q \in PositionsUnder(h, p)}

\* the pairs <<input model, output model>> at the same place of two Model trees
RECURSIVE ModelPairs(_, _, _, _)
ModelPairs(hi, m, ho, n) ==
    {<<m, n>>} \cup
    UNION {ModelPairs(hi, NestedModels(hi, m)[i], ho, NestedModels(ho, n)[i]) :
              i \in 1..Min(Len(NestedModels(hi, m)), Len(NestedModels(ho, n)))}

\* the pairs <<input position, output position>> at the same place of two Position trees
RECURSIVE PositionPairs(_, _, _, _)
PositionPairs(hi, p, ho, q) ==
    {<<p, q>>} \cup
    UNION {PositionPairs(hi, NestedPositions(hi, p)[i], ho, NestedPositions(ho, q)[i]) :
              i \in 1..Min(Len(NestedPositions(hi, p)), Len(NestedPositions(ho, q)))}

\* the concatenation of f[1], ..., f[n]
RECURSIVE Flatten(_, _)
Flatten(f, n) == IF n = 0 THEN <<>> ELSE Flatten(f, n - 1) \o f[n]

\* the names of a Model tree in pre-order
RECURSIVE ModelNames(_, _)
ModelNames(h, m) ==
    <<h.mod[m].name>> \o
    Flatten([i \in 1..Len(NestedModels(h, m)) |-> ModelNames(h, NestedModels(h, m)[i])],
            Len(NestedModels(h, m)))

\* the names of a Position tree in pre-order, each Position followed by its Model tree
RECURSIVE SceneNames(_, _)
SceneNames(h, p) ==
    <<h.pos[p].name>> \o ModelNames(h, ModelOf(h, p)) \o
    Flatten([i \in 1..Len(NestedPositions(h, p)) |->
                SceneNames(h, NestedPositions(h, p)[i])],
            Len(NestedPositions(h, p)))

\* the number of Position nodes of a Position tree
RECURSIVE CountPositions(_, _)
CountPositions(h, p) ==
    Len(Flatten([i \in 1..Len(NestedPositions(h, p)) |->
                    [k \in 1..CountPositions(h, NestedPositions(h, p)[i]) |-> 0]],
                Len(NestedPositions(h, p)))) + 1

\* the calls of view2cameraPosition and of view2cameraModel whose result is held
PositionCalls == {k \in DOMAIN calls : calls[k].op = "position"}

ModelCalls == {k \in DOMAIN calls : calls[k].op = "model"}

(***************************************************************************)
(* C2: a Position whose model is not visible comes out with a model whose  *)
(* vertexList equals the input model's, and all its nested Positions, at   *)
(* every depth, are still there in the output, each one whose own model is *)
(* visible with its model's vertices multiplied by the normalize matrix.   *)
(***************************************************************************)
C2_HiddenPosition ==
    \A k \in PositionCalls :
        LET c == calls[k]
        IN  \A pq \in PositionPairs(c.pre, c.arg, heap, c.ret) :
                ~c.pre.mod[ModelOf(c.pre, pq[1])].visible =>
                    /\ Verts(heap, ModelOf(heap, pq[2])) = Verts(c.pre, ModelOf(c.pre, pq[1]))
                    /\ \A d \in PositionPairs(c.pre, pq[1], heap, pq[2]) :
                          /\ Len(NestedPositions(heap, d[2])) =
                                Len(NestedPositions(c.pre, d[1]))
                          /\ c.pre.mod[ModelOf(c.pre, d[1])].visible =>
                                Verts(heap, ModelOf(heap, d[2])) =
                                    Transformed(Verts(c.pre, ModelOf(c.pre, d[1])))

\* the argument is hidden, and a Position two levels below it is visible and moved
C2_Witness ==
    \E k \in PositionCalls :
        LET c == calls[k]
        IN  /\ ~c.pre.mod[ModelOf(c.pre, c.arg)].visible
            /\ Verts(c.pre, ModelOf(c.pre, c.arg)) # <<>>
            /\ Verts(heap, ModelOf(heap, c.ret)) # Transformed(Verts(heap, ModelOf(heap, c.ret)))
            /\ \E i \in 1..Len(NestedPositions(heap, c.ret)) :
                 LET q1 == NestedPositions(heap, c.ret)[i]
                     p1 == NestedPositions(c.pre, c.arg)[i]
                 IN  \E j \in 1..Len(NestedPositions(heap, q1)) :
                        LET q2 == NestedPositions(heap, q1)[j]
                            p2 == NestedPositions(c.pre, p1)[j]
                        IN  /\ c.pre.mod[ModelOf(c.pre, p2)].visible
                            /\ Verts(c.pre, ModelOf(c.pre, p2)) # <<>>
                            /\ Verts(heap, ModelOf(heap, q2)) #
                                  Verts(c.pre, ModelOf(c.pre, p2))

(***************************************************************************)
(* C3: the tree view2cameraPosition returns has the shape of its input:    *)
(* as many Position nodes and Model nodes, the same names in pre-order,    *)
(* and at every node nestedPositions and nestedModels of the same length   *)
(* with the children in the same order, whatever the visible flags.        *)
(***************************************************************************)
C3_Isomorphic ==
    \A k \in PositionCalls :
        LET c == calls[k]
        IN  /\ SceneNames(heap, c.ret) = SceneNames(c.pre, c.arg)
            /\ CountPositions(heap, c.ret) = CountPositions(c.pre, c.arg)
            /\ \A pq \in PositionPairs(c.pre, c.arg, heap, c.ret) :
                  /\ heap.pos[pq[2]].name = c.pre.pos[pq[1]].name
                  /\ Len(NestedPositions(heap, pq[2])) = Len(NestedPositions(c.pre, pq[1]))
                  /\ \A mn \in ModelPairs(c.pre, ModelOf(c.pre, pq[1]),
                                          heap, ModelOf(heap, pq[2])) :
                        /\ heap.mod[mn[2]].name = c.pre.mod[mn[1]].name
                        /\ Len(NestedModels(heap, mn[2])) = Len(NestedModels(c.pre, mn[1]))

\* a tree with a hidden Position that has a nested Position, and a visible Position
\* whose model has nested models
C3_Witness ==
    \E k \in PositionCalls :
        LET c == calls[k]
        IN  /\ CountPositions(c.pre, c.arg) >= 3
            /\ \E p \in PositionsUnder(c.pre, c.arg) :
                  /\ ~c.pre.mod[ModelOf(c.pre, p)].visible
                  /\ NestedPositions(c.pre, p) # <<>>
            /\ \E p \in PositionsUnder(c.pre, c.arg) :
                  /\ c.pre.mod[ModelOf(c.pre, p)].visible
                  /\ NestedModels(c.pre, ModelOf(c.pre, p)) # <<>>
            /\ Len(SceneNames(heap, c.ret)) >= 6

(***************************************************************************)
(* C4: the Model view2cameraModel returns has as many vertices as its      *)
(* input, and its vertex i is the normalize matrix times input vertex i.   *)
(***************************************************************************)
C4_VertexOrder ==
    \A k \in ModelCalls :
        LET c == calls[k]
            vin == Verts(c.pre, c.arg)
            vout == Verts(heap, c.ret)
        IN  /\ Len(vout) = Len(vin)
            /\ \A i \in 1..Len(vin) :
                  vout[i] = timesVertex(getNormalizeMatrix(camera), vin[i])

\* a Model of two different vertices, both moved by the matrix
C4_Witness ==
    \E k \in ModelCalls :
        LET c == calls[k]
            vin == Verts(c.pre, c.arg)
            vout == Verts(heap, c.ret)
        IN  /\ Len(vin) >= 2
            /\ vin[1] # vin[2]
            /\ vout[1] # vout[2]
            /\ vout[1] # vin[1]
            /\ vout[2] # vin[2]

(***************************************************************************)
(* C5: whatever calls were made, every object of the input trees is as it  *)
(* was before them: vertex arrays, nestedModels and nestedPositions        *)
(* arrays, primitive and colour lists, and every field of every input      *)
(* Model and Position.                                                     *)
(***************************************************************************)
C5_InputsUnchanged ==
    /\ SubSeq(heap.vl, 1, Len(heap0.vl)) = heap0.vl
    /\ SubSeq(heap.il, 1, Len(heap0.il)) = heap0.il
    /\ SubSeq(heap.mod, 1, Len(heap0.mod)) = heap0.mod
    /\ SubSeq(heap.pos, 1, Len(heap0.pos)) = heap0.pos

\* a call has transformed a visible model with vertices and nested positions
C5_Witness ==
    \E k \in PositionCalls :
        LET c == calls[k]
        IN  /\ c.pre.mod[ModelOf(c.pre, c.arg)].visible
            /\ NestedPositions(heap, c.ret) # <<>>
            /\ Verts(heap, ModelOf(heap, c.ret)) # Verts(c.pre, ModelOf(c.pre, c.arg))
            /\ Len(heap.mod) > Len(heap0.mod)

(***************************************************************************)
(* C6, as stated: no Position object and no Model object reachable from    *)
(* the Position view2cameraPosition returns is an object reachable from    *)
(* its input Position, also when some Position's model is not visible.     *)
(***************************************************************************)
C6_Original ==
    \A k \in PositionCalls :
        LET c == calls[k]
        IN  /\ PositionsUnder(heap, c.ret) \cap PositionsUnder(c.pre, c.arg) = {}
            /\ SceneModels(heap, c.ret) \cap SceneModels(c.pre, c.arg) = {}

(***************************************************************************)
(* C6, amended: no Position object of the returned tree is a Position of   *)
(* the input tree; under an output Position whose input Position's model   *)
(* is visible no Model object is a Model of the input tree; an output      *)
(* Position whose input Position's model is not visible holds the input    *)
(* Position's own Model object.                                            *)
(***************************************************************************)
C6_Amended ==
    \A k \in PositionCalls :
        LET c == calls[k]
        IN  /\ PositionsUnder(heap, c.ret) \cap PositionsUnder(c.pre, c.arg) = {}
            /\ \A pq \in PositionPairs(c.pre, c.arg, heap, c.ret) :
                  IF c.pre.mod[ModelOf(c.pre, pq[1])].visible
                  THEN ModelsUnder(heap, ModelOf(heap, pq[2])) \cap
                          SceneModels(c.pre, c.arg) = {}
                  ELSE ModelOf(heap, pq[2]) = ModelOf(c.pre, pq[1])

\* a tree with a hidden Position and a visible Position whose model has nested models
C6_Witness ==
    \E k \in PositionCalls :
        LET c == calls[k]
        IN  /\ \E p \in PositionsUnder(c.pre, c.arg) :
                  ~c.pre.mod[ModelOf(c.pre, p)].visible
            /\ \E pq \in PositionPairs(c.pre, c.arg, heap, c.ret) :
                  /\ c.pre.mod[ModelOf(c.pre, pq[1])].visible
                  /\ NestedModels(heap, ModelOf(heap, pq[2])) # <<>>

(***************************************************************************)
(* C9: under a Position whose model is visible, every Model of the model's *)
(* nestedModels tree, at every depth, has its vertices multiplied by the   *)
(* normalize matrix, whatever its own visible flag and those of the nested *)
(* models above it.                                                        *)
(***************************************************************************)
C9_NestedModelsTransformed ==
    \A k \in PositionCalls :
        LET c == calls[k]
        IN  \A pq \in PositionPairs(c.pre, c.arg, heap, c.ret) :
                c.pre.mod[ModelOf(c.pre, pq[1])].visible =>
                    \A mn \in ModelPairs(c.pre, ModelOf(c.pre, pq[1]),
                                         heap, ModelOf(heap, pq[2])) :
                        /\ Len(NestedModels(heap, mn[2])) = Len(NestedModels(c.pre, mn[1]))
                        /\ Verts(heap, mn[2]) = Transformed(Verts(c.pre, mn[1]))

\* a visible model with a hidden nested model, and below that a hidden nested model
\* whose vertices the matrix moved
C9_Witness ==
    \E k \in PositionCalls :
        LET c == calls[k]
            root == ModelOf(c.pre, c.arg)
        IN  /\ c.pre.mod[root].visible
            /\ \E i \in 1..Len(NestedModels(c.pre, root)) :
                 LET m1 == NestedModels(c.pre, root)[i]
                     n1 == NestedModels(heap, ModelOf(heap, c.ret))[i]
                 IN  /\ ~c.pre.mod[m1].visible
                     /\ \E j \in 1..Len(NestedModels(c.pre, m1)) :
                          LET m2 == NestedModels(c.pre, m1)[j]
                              n2 == NestedModels(heap, n1)[j]
                          IN  /\ ~c.pre.mod[m2].visible
                              /\ Verts(c.pre, m2) # <<>>
                              /\ Verts(heap, n2) # Verts(c.pre, m2)

(***************************************************************************)
(* C10: every Model rebuilt by view2cameraNestedModel or view2cameraModel  *)
(* has the primitiveList, colorList, matrix, name and visible flag of the  *)
(* Model it was built from, and every output Position has the name of its  *)
(* input Position.                                                         *)
(***************************************************************************)
SameAttributes(hi, m, ho, n) ==
    /\ ho.mod[n].primitiveList = hi.mod[m].primitiveList
    /\ ho.il[ho.mod[n].primitiveList] = hi.il[hi.mod[m].primitiveList]
    /\ ho.mod[n].colorList = hi.mod[m].colorList
    /\ ho.il[ho.mod[n].colorList] = hi.il[hi.mod[m].colorList]
    /\ ho.mod[n].matrix = hi.mod[m].matrix
    /\ ho.mod[n].name = hi.mod[m].name
    /\ ho.mod[n].visible = hi.mod[m].visible

C10_AttributesKept ==
    /\ \A k \in ModelCalls : SameAttributes(calls[k].pre, calls[k].arg, heap, calls[k].ret)
    /\ \A k \in PositionCalls :
          LET c == calls[k]
          IN  \A pq \in PositionPairs(c.pre, c.arg, heap, c.ret) :
                  /\ heap.pos[pq[2]].name = c.pre.pos[pq[1]].name
                  /\ \A mn \in ModelPairs(c.pre, ModelOf(c.pre, pq[1]),
                                          heap, ModelOf(heap, pq[2])) :
                        SameAttributes(c.pre, mn[1], heap, mn[2])

\* a rebuilt Model tree with a nested model, of other flag than its root, under a
\* nested Position
C10_Witness ==
    \E k \in PositionCalls :
        LET c == calls[k]
        IN  \E pq \in PositionPairs(c.pre, c.arg, heap, c.ret) :
                /\ pq[1] # c.arg
                /\ ModelOf(heap, pq[2]) # ModelOf(c.pre, pq[1])
                /\ \E mn \in ModelPairs(c.pre, ModelOf(c.pre, pq[1]),
                                        heap, ModelOf(heap, pq[2])) :
                      /\ mn[2] # ModelOf(heap, pq[2])
                      /\ ~heap.mod[mn[2]].visible

(***************************************************************************)
(* Claims about build, under SpecBuild.                                    *)
(***************************************************************************)
Built == bres.op = "build"

IsNumber(v) == TypeOf(v) = "number"

IsFiniteNumber(v) == IsNumber(v) /\ IsFinite(v.num)

Is4x4(m) == Len(m) = 4 /\ \A i \in 1..4 : Len(m[i]) = 4

(***************************************************************************)
(* C1, as stated: build fails, and returns no matrix, whenever one of      *)
(* l, r, b, t is not a finite numeric value: a non-number such as "a", or  *)
(* the number NaN, +Infinity or -Infinity.                                 *)
(***************************************************************************)
C1_Original ==
    (Built /\ \E i \in 1..4 : ~IsFiniteNumber(bargs[i])) =>
        (bres.threw /\ bres.m = <<>>)

(***************************************************************************)
(* C1, amended: build fails, and returns no matrix, exactly when one of    *)
(* l, r, b, t is not of type number; NaN, +Infinity and -Infinity are of   *)
(* type number, and for them build returns a matrix.                       *)
(***************************************************************************)
C1_Amended ==
    Built =>
        /\ bres.threw <=> (\E i \in 1..4 : ~IsNumber(bargs[i]))
        /\ bres.threw => bres.m = <<>>
        /\ ~bres.threw => Is4x4(bres.m)

\* only t is not a number, and build has thrown
C1_Witness ==
    /\ Built
    /\ bres.threw
    /\ bargs[4] = JSString
    /\ \A i \in 1..3 : IsFiniteNumber(bargs[i])

(***************************************************************************)
(* C7: build(-1, 1, -1, 1) returns the identity matrix, and a Model whose  *)
(* vertexList is [(1, 1, -1)] transformed with it has the vertexList       *)
(* [(1, 1, -1)].                                                           *)
(***************************************************************************)
C7_IdentityBounds ==
    (Built /\ bargs = <<JSNumber(Q(-1)), JSNumber(Q(1)), JSNumber(Q(-1)), JSNumber(Q(1))>>) =>
        /\ ~bres.threw
        /\ bres.m = << <<Q(1), Q(0), Q(0), Q(0)>>,
                       <<Q(0), Q(1), Q(0), Q(0)>>,
                       <<Q(0), Q(0), Q(1), Q(0)>>,
                       <<Q(0), Q(0), Q(0), Q(1)>> >>
        /\ \A k \in ModelCalls :
              /\ Verts(calls[k].pre, calls[k].arg) = <<Vertex(Q(1), Q(1), Q(-1))>>
              /\ getNormalizeMatrix(camera) = bres.m
              /\ Verts(heap, calls[k].ret) = <<Vertex(Q(1), Q(1), Q(-1))>>

\* the model has been transformed under the identity bounds
C7_Witness ==
    /\ Built
    /\ bargs = <<JSNumber(Q(-1)), JSNumber(Q(1)), JSNumber(Q(-1)), JSNumber(Q(1))>>
    /\ ModelCalls # {}

(***************************************************************************)
(* C8: the matrix build returns for bounds with r # l and t # b.           *)
(***************************************************************************)
\* the skew matrix of the claim: the identity with third column ((r+l)/2, (t+b)/2, 1, 0)
ClaimedSkew(l, r, b, t) ==
    << <<Q(1), Q(0), Div(Add(r, l), Q(2)), Q(0)>>,
       <<Q(0), Q(1), Div(Add(t, b), Q(2)), Q(0)>>,
       <<Q(0), Q(0), Q(1), Q(0)>>,
       <<Q(0), Q(0), Q(0), Q(1)>> >>

\* the scale matrix of the claim: diag(2/(r-l), 2/(t-b), 1, 1)
ClaimedScale(l, r, b, t) ==
    << <<Div(Q(2), Sub(r, l)), Q(0), Q(0), Q(0)>>,
       <<Q(0), Div(Q(2), Sub(t, b)), Q(0), Q(0)>>,
       <<Q(0), Q(0), Q(1), Q(0)>>,
       <<Q(0), Q(0), Q(0), Q(1)>> >>

\* scale x skew, written out: diagonal (2/(r-l), 2/(t-b), 1, 1) and third column
\* ((r+l)/(r-l), (t+b)/(t-b), 1, 0)
ClaimedProduct(l, r, b, t) ==
    << <<Div(Q(2), Sub(r, l)), Q(0), Div(Add(r, l), Sub(r, l)), Q(0)>>,
       <<Q(0), Div(Q(2), Sub(t, b)), Div(Add(t, b), Sub(t, b)), Q(0)>>,
       <<Q(0), Q(0), Q(1), Q(0)>>,
       <<Q(0), Q(0), Q(0), Q(1)>> >>

\* the matrix product a x b by the textbook formula
Product(a, b) ==
    [i \in 1..4 |-> [j \in 1..4 |->
        Add(Mul(a[i][1], b[1][j]),
            Add(Mul(a[i][2], b[2][j]),
                Add(Mul(a[i][3], b[3][j]), Mul(a[i][4], b[4][j]))))]]

\* r != l as JavaScript compares numbers: NaN differs from every number
JSNotEqual(x, y) == x = NaN \/ y = NaN \/ x # y

C8_Body ==
    LET l == bargs[1].num
        r == bargs[2].num
        b == bargs[3].num
        t == bargs[4].num
    IN  /\ ~bres.threw
        /\ bres.m = Product(ClaimedScale(l, r, b, t), ClaimedSkew(l, r, b, t))
        /\ bres.m = ClaimedProduct(l, r, b, t)
        /\ (l = Q(0) /\ r = Q(2) /\ b = Q(0) /\ t = Q(2)) =>
              /\ \A i \in 1..4 : bres.m[i][3] = <<Q(1), Q(1), Q(1), Q(0)>>[i]
              /\ timesVertex(bres.m, Vertex(Q(1), Q(1), Q(-1))) = Vertex(Q(0), Q(0), Q(-1))
              /\ \A k \in ModelCalls :
                    /\ Verts(calls[k].pre, calls[k].arg) = <<Vertex(Q(1), Q(1), Q(-1))>>
                    /\ Verts(heap, calls[k].ret) = <<Vertex(Q(0), Q(0), Q(-1))>>

====
